---- MODULE Spec2Model ----
(***************************************************************************)
(* Model of src/accounts/userservice/db.py: the UserDb data-access object  *)
(* over the "users" table.  The table, with its primary key and unique     *)
(* constraint, is the shared state; each caller thread runs add_user,      *)
(* generate_accountid and get_user, one statement execution per step.      *)
(***************************************************************************)
EXTENDS Integers, Sequences, FiniteSets, TLC

\* ---------------------------------------------------------------- bounds
NumThreads == 2      \* concurrent request-handling threads
NumUsers   == 2      \* usernames callers supply

Threads   == 1..NumThreads
Usernames == 1..NumUsers
\* passhash ... ssn: nine columns with no constraint but NOT NULL, named in no
\* WHERE clause; one value stands for the nine
Payloads  == {"row data"}

\* ------------------------------------------------- integers and str(int)
\* Python integers are unbounded; an account number is held in two limbs
\* <<hi, lo>> standing for hi * Base + lo.
Base == 100000

Leq(a, b) == a[1] < b[1] \/ (a[1] = b[1] /\ a[2] <= b[2])

\* n - 1, for n >= 1
Sub1(n) == IF n[2] = 0 THEN <<n[1] - 1, Base - 1>> ELSE <<n[1], n[2] - 1>>

RECURSIVE Digits(_)
Digits(k) == IF k < 10 THEN <<k>> ELSE Append(Digits(k \div 10), k % 10)

RECURSIVE PadLeft(_, _)
PadLeft(s, w) == IF Len(s) >= w THEN s ELSE PadLeft(<<0>> \o s, w)

\* str(n): the decimal digits of n, most significant first, no leading zero
Str(n) == IF n[1] = 0 THEN Digits(n[2]) ELSE Digits(n[1]) \o PadLeft(Digits(n[2]), 5)

\* the two arguments of random.randint at line 100
RandLo == <<10000, 0>>                  \* 1_000_000_000
\* (variant: the upper argument without its - 1)
RandHiOffByOne == <<100000, 0>>
RandHi == Sub1(<<100000, 0>>)           \* 10_000_000_000 - 1

\* The integers the random source is sampled at, the boundary values of the
\* range: 999_999_999, 1_000_000_000, 9_999_999_999 and 10_000_000_000.
Samples == {<<9999, 99999>>, <<10000, 0>>, <<99999, 99999>>, <<100000, 0>>}

\* random.randint(a, b): any integer n with a <= n <= b
RandInt(a, b) == {n \in Samples : Leq(a, n) /\ Leq(n, b)}

\* Python None for the local variable accountid
NoneId == <<>>

\* account ids callers pass to add_user: the strings the generator can produce
AccountIds == {Str(n) : n \in RandInt(<<10000, 0>>, <<99999, 99999>>)}

\* ------------------------------------------------------------- the table
Rows  == [accountid : AccountIds, username : Usernames, data : Payloads]
NoRow == [accountid |-> NoneId, username |-> 0, data |-> ""]

Ids(table)   == {r.accountid : r \in table}
Names(table) == {r.username : r \in table}

\* engine.connect(): raises OperationalError when the backend is unreachable
Connect(up) == IF up THEN "ok" ELSE "OperationalError"

\* create_engine(uri): parses the URI and builds the pool; opens no connection
\* (variant: a create_engine that connects at once)
CreateEngineEager(uri, up) ==
    IF uri # "valid" THEN "ArgumentError"
    ELSE IF up THEN "ok" ELSE "OperationalError"
CreateEngine(uri, up) == IF uri = "valid" THEN "ok" ELSE "ArgumentError"

\* INSERT under the table's constraints: accountid primary key, username unique
\* (variants: username not unique; accountid not a key; replace on username)
InsertRowNoUnique(table, f) ==
    IF \E r \in table : r.accountid = f.accountid
    THEN [status |-> "IntegrityError", table |-> table]
    ELSE [status |-> "ok", table |-> table \cup {f}]
InsertRowNoPrimaryKey(table, f) ==
    IF \E r \in table : r.username = f.username
    THEN [status |-> "IntegrityError", table |-> table]
    ELSE [status |-> "ok", table |-> table \cup {f}]
InsertRowUpsert(table, f) ==
    IF \E r \in table : r.accountid = f.accountid
    THEN [status |-> "IntegrityError", table |-> table]
    ELSE [status |-> IF f.username \in Names(table) THEN "IntegrityError" ELSE "ok",
          table  |-> {r \in table : r.username # f.username} \cup {f}]
InsertRow(table, f) ==
    IF \E r \in table : r.accountid = f.accountid \/ r.username = f.username
    THEN [status |-> "IntegrityError", table |-> table]
    ELSE [status |-> "ok", table |-> table \cup {f}]

\* SELECT ... WHERE accountid = c
SelectByAccountId(table, c) == {r \in table : r.accountid = c}

\* SELECT ... WHERE username = u
\* (variant: the WHERE clause dropped)
SelectByUsernameAll(table, u) == table
SelectByUsername(table, u) == {r \in table : r.username = u}

\* add_user(user): what it raises ("ok" when it returns) and the table after
add_user(table, f, up) ==
    IF Connect(up) # "ok"
    THEN [status |-> "OperationalError", table |-> table]
    ELSE InsertRow(table, f)

\* get_user(username): the set of possible outcomes <<status, record>>;
\* .first() is any one of the matching rows, None when there is none
\* (variant: .one() in place of .first())
get_userRaisesOnMiss(table, u, up) ==
    IF Connect(up) # "ok" THEN {<<"OperationalError", NoRow>>}
    ELSE IF SelectByUsername(table, u) = {} THEN {<<"NoResultFound", NoRow>>}
    ELSE {<<"ok", r>> : r \in SelectByUsername(table, u)}
get_user(table, u, up) ==
    IF Connect(up) # "ok" THEN {<<"OperationalError", NoRow>>}
    ELSE IF SelectByUsername(table, u) = {} THEN {<<"ok", NoRow>>}
    ELSE {<<"ok", r>> : r \in SelectByUsername(table, u)}

\* One pass of the while loop of generate_accountid with candidate number n:
\* "raise" when the existence check fails, "retry" when a row was found
\* (accountid is cleared), "exit" when none was found.
\* (variants: no existence check; retry on a failed check; give up after a hit)
LoopPassNoCheck(table, n, up) == [next |-> "exit", accountid |-> Str(n)]
LoopPassRetryOnError(table, n, up) ==
    IF ~up THEN [next |-> "retry", accountid |-> NoneId]
    ELSE IF SelectByAccountId(table, Str(n)) # {}
    THEN [next |-> "retry", accountid |-> NoneId]
    ELSE [next |-> "exit", accountid |-> Str(n)]
LoopPassCapped(table, n, up) ==
    IF ~up THEN [next |-> "raise", accountid |-> Str(n)]
    ELSE IF SelectByAccountId(table, Str(n)) # {}
    THEN [next |-> "exit", accountid |-> NoneId]
    ELSE [next |-> "exit", accountid |-> Str(n)]
LoopPass(table, n, up) ==
    IF ~up THEN [next |-> "raise", accountid |-> Str(n)]
    ELSE IF SelectByAccountId(table, Str(n)) # {}
    THEN [next |-> "retry", accountid |-> NoneId]
    ELSE [next |-> "exit", accountid |-> Str(n)]

\* ------------------------------------------------------------------ state
VARIABLES
    store,       \* "none" until UserDb.__init__ has returned, then "ready"
    dbUp,        \* whether the backing engine is reachable
    users,       \* the rows of the users table
    pc,          \* per thread: "idle", "gen_loop" (at the while test), "gen_ret"
    accountid,   \* per thread: the local variable of generate_accountid
    startIds,    \* per thread: the account ids in the table when its call began
    held,        \* per thread: the id its last generate_accountid call returned
    addOut,      \* per thread: how its first add_user call with that id that
                 \* reached the database ended
    added,       \* the field mappings of the add_user calls that returned
    last         \* the last call that returned or raised, or the last retry

vars == <<store, dbUp, users, pc, accountid, startIds, held, addOut, added, last>>

\* op: the call; status: "ok" or the exception raised; at: the statement of
\* the call at which it was raised; rec / id: the value returned
\* name: the username asked for (get_user); 1 iff the engine was reachable
\* when the call was made (__init__)
Event(op, name, status, at, rec, id) ==
    [op |-> op, name |-> name, status |-> status, at |-> at, rec |-> rec, id |-> id]

Init ==
    /\ store = "none"
    /\ dbUp \in BOOLEAN
    /\ users = {}
    /\ pc = [t \in Threads |-> "idle"]
    /\ accountid = [t \in Threads |-> NoneId]
    /\ startIds = [t \in Threads |-> {}]
    /\ held = [t \in Threads |-> NoneId]
    /\ addOut = [t \in Threads |-> "none"]
    /\ added = {}
    /\ last = Event("none", 0, "ok", "", NoRow, NoneId)

\* UserDb.__init__(uri)
Initialize(uri) ==
    /\ store = "none"
    /\ LET r == CreateEngine(uri, dbUp) IN
         /\ store' = IF r = "ok" THEN "ready" ELSE "none"
         /\ last' = Event("init", IF dbUp THEN 1 ELSE 0, r,
                         IF r = "ok" THEN "" ELSE "create_engine",
                         NoRow, NoneId)
    /\ UNCHANGED <<dbUp, users, pc, accountid, startIds, held, addOut, added>>

\* add_user(user) by thread t
AddUser(t, f) ==
    /\ store = "ready"
    /\ pc[t] = "idle"
    /\ LET r == add_user(users, f, dbUp) IN
         /\ users' = r.table
         /\ added' = IF r.status = "ok" THEN added \cup {f} ELSE added
         /\ last' = Event("add_user", 0, r.status,
                         CASE r.status = "ok" -> ""
                           [] r.status = "OperationalError" -> "connect"
                           [] OTHER -> "execute",
                         NoRow, NoneId)
         /\ IF held[t] # NoneId /\ addOut[t] = "none"
            THEN IF f.accountid = held[t]
                 THEN /\ addOut' = [addOut EXCEPT ![t] =
                                   IF r.status = "OperationalError" THEN "none"
                                   ELSE r.status]
                      /\ held' = held
                 ELSE held' = [held EXCEPT ![t] = NoneId] /\ addOut' = addOut
            ELSE UNCHANGED <<held, addOut>>
    /\ UNCHANGED <<store, dbUp, pc, accountid, startIds>>

\* get_user(username) by thread t
GetUser(t, u) ==
    /\ store = "ready"
    /\ pc[t] = "idle"
    /\ \E o \in get_user(users, u, dbUp) :
         last' = Event("get_user", u, o[1],
                       IF o[1] = "ok" THEN "" ELSE "connect", o[2], NoneId)
    /\ UNCHANGED <<store, dbUp, users, pc, accountid, startIds, held, addOut, added>>

\* generate_accountid() by thread t, lines 90-96: accountid = None, connect
GenCall(t) ==
    /\ store = "ready"
    /\ pc[t] = "idle"
    /\ held' = [held EXCEPT ![t] = NoneId]
    /\ addOut' = [addOut EXCEPT ![t] = "none"]
    /\ accountid' = [accountid EXCEPT ![t] = NoneId]
    /\ IF Connect(dbUp) = "ok"
       THEN /\ pc' = [pc EXCEPT ![t] = "gen_loop"]
            /\ startIds' = [startIds EXCEPT ![t] = Ids(users)]
            /\ last' = last
       ELSE /\ pc' = pc
            /\ startIds' = startIds
            /\ last' = Event("generate_accountid", 0, "OperationalError",
                            "connect", NoRow, NoneId)
    /\ UNCHANGED <<store, dbUp, users, added>>

\* lines 97-119: one pass of the loop
GenIter(t) ==
    /\ pc[t] = "gen_loop"
    /\ accountid[t] = NoneId
    /\ \E n \in RandInt(RandLo, RandHi) :
         LET p == LoopPass(users, n, dbUp) IN
           CASE p.next = "raise" ->
                  /\ pc' = [pc EXCEPT ![t] = "idle"]
                  /\ accountid' = [accountid EXCEPT ![t] = NoneId]
                  /\ startIds' = [startIds EXCEPT ![t] = {}]
                  /\ last' = Event("generate_accountid", 0, "OperationalError",
                                  "execute", NoRow, NoneId)
             [] p.next = "retry" ->
                  /\ pc' = pc
                  /\ accountid' = [accountid EXCEPT ![t] = p.accountid]
                  /\ startIds' = startIds
                  /\ last' = Event("retry", 0, "ok", "", NoRow, Str(n))
             [] p.next = "exit" ->
                  /\ pc' = [pc EXCEPT ![t] = "gen_ret"]
                  /\ accountid' = [accountid EXCEPT ![t] = p.accountid]
                  /\ startIds' = startIds
                  /\ last' = last
    /\ UNCHANGED <<store, dbUp, users, held, addOut, added>>

\* lines 121-126: the loop has ended, return accountid
GenReturn(t) ==
    /\ pc[t] = "gen_ret"
    /\ pc' = [pc EXCEPT ![t] = "idle"]
    /\ held' = [held EXCEPT ![t] = accountid[t]]
    /\ last' = Event("generate_accountid", 0, "ok", "", NoRow, accountid[t])
    /\ accountid' = [accountid EXCEPT ![t] = NoneId]
    /\ startIds' = [startIds EXCEPT ![t] = {}]
    /\ UNCHANGED <<store, dbUp, users, addOut, added>>

\* the backing engine becomes unreachable / reachable again
DbDown == dbUp /\ dbUp' = FALSE
            /\ UNCHANGED <<store, users, pc, accountid, startIds, held, addOut, added, last>>
DbUp == ~dbUp /\ dbUp' = TRUE
            /\ UNCHANGED <<store, users, pc, accountid, startIds, held, addOut, added, last>>

Next ==
    \/ \E uri \in {"valid", "invalid"} : Initialize(uri)
    \/ \E t \in Threads, f \in Rows : AddUser(t, f)
    \/ \E t \in Threads, u \in Usernames : GetUser(t, u)
    \/ \E t \in Threads : GenCall(t)
    \/ \E t \in Threads : GenIter(t)
    \/ \E t \in Threads : GenReturn(t)
    \/ DbDown
    \/ DbUp

Spec == Init /\ [][Next]_vars

\* Generation and insertion when the backing engine never fails.  get_user
\* reads only and is left out: it changes no row and no generate_accountid
\* local.  The random source is fair: a thread at the loop test that can draw
\* an id with no row eventually does.
InitLive == Init /\ dbUp = TRUE

GenFresh(t) == GenIter(t) /\ pc'[t] = "gen_ret"

NextLive ==
    \/ \E uri \in {"valid", "invalid"} : Initialize(uri)
    \/ \E t \in Threads, f \in Rows : AddUser(t, f)
    \/ \E t \in Threads : GenCall(t)
    \/ \E t \in Threads : GenIter(t)
    \/ \E t \in Threads : GenReturn(t)

LiveSpec == /\ InitLive /\ [][NextLive]_vars
            /\ \A t \in Threads : WF_vars(GenFresh(t)) /\ WF_vars(GenReturn(t))

\* ------------------------------------------------------------ properties
\* the number a digit string denotes, in limbs
RECURSIVE ToLimbs(_)
ToLimbs(s) ==
    IF s = <<>> THEN <<0, 0>>
    ELSE LET p == ToLimbs(SubSeq(s, 1, Len(s) - 1))
             x == p[2] * 10 + s[Len(s)]
         IN <<p[1] * 10 + (x \div Base), x % Base>>

TenDigits(s) ==
    /\ Len(s) = 10
    /\ \A i \in 1..10 : s[i] \in 0..9
    /\ Leq(<<10000, 0>>, ToLimbs(s))
    /\ Leq(ToLimbs(s), <<99999, 99999>>)

\* every id of the sampled range has a row
Full == \A n \in RandInt(<<10000, 0>>, <<99999, 99999>>) : Str(n) \in Ids(users)

\* C1: once add_user(f) has returned, every get_user(f.username) that the
\* database answers returns exactly f, whatever other rows the table holds.
C1_AddThenGet ==
    [][(dbUp /\ last'.op = "get_user") =>
          \A f \in added :
              (\E t \in Threads : GetUser(t, f.username)) =>
                  last'.status = "ok" /\ last'.rec = f]_vars

C1_Witness ==
    /\ last.op = "get_user" /\ last.status = "ok"
    /\ last.rec \in added
    /\ \E r \in added : r.username # last.name

\* C2: a value generate_accountid returns was not in the table when the call
\* began; a candidate found in the table is cleared and the loop goes round
\* again, and the loop is left only with a candidate whose check found no row.
C2_NeverReturnsExisting ==
    /\ [](\A t \in Threads : pc[t] = "gen_ret" => accountid[t] \notin startIds[t])
    /\ [][\A t \in Threads :
             /\ (pc[t] = "gen_ret" /\ GenReturn(t)) =>
                   last'.id = accountid[t] /\ last'.id \notin startIds[t]
             /\ (pc[t] = "gen_loop" /\ dbUp /\ GenIter(t)) =>
                   \/ /\ pc'[t] = "gen_ret"
                      /\ accountid'[t] \notin Ids(users)
                   \/ /\ pc'[t] = "gen_loop" /\ accountid'[t] = NoneId
                      /\ last'.op = "retry" /\ last'.id \in Ids(users)]_vars

C2_Witness ==
    \E t \in Threads :
        /\ pc[t] = "gen_ret" /\ startIds[t] # {}
        /\ last.op = "retry" /\ last.id \in startIds[t]

\* C3: add_user with the accountid or the username of an existing row, on a
\* reachable database, raises IntegrityError, inserts nothing, and every
\* existing row is unchanged and is what get_user returns for its username.
C3_DuplicateRejected ==
    [][(dbUp /\ last'.op = "add_user") =>
          \A f \in Rows :
              (/\ f.accountid \in Ids(users) \/ f.username \in Names(users)
               /\ \E t \in Threads : AddUser(t, f)) =>
                  /\ last'.status = "IntegrityError"
                  /\ users' = users
                  /\ \A r \in users :
                        get_user(users', r.username, TRUE) = {<<"ok", r>>}]_vars

C3_Witness ==
    /\ last.op = "add_user" /\ last.status = "IntegrityError"
    /\ users # {}
    /\ \A r \in users : get_user(users, r.username, TRUE) = {<<"ok", r>>}

\* C4: no two rows of the table share an accountid, and no two share a username.
C4_UniqueKeys ==
    \A r1 \in users, r2 \in users :
        (r1.accountid = r2.accountid \/ r1.username = r2.username) => r1 = r2

C4_Witness ==
    /\ Cardinality(users) >= 2
    /\ last.op = "add_user" /\ last.status = "IntegrityError"
    /\ \E t \in Threads : pc[t] # "idle"

\* both threads were returned the same id by generate_accountid and both have
\* made their following add_user call with it
BothHeld(t1, t2) ==
    /\ t1 # t2
    /\ held[t1] # NoneId /\ held[t1] = held[t2]
    /\ addOut[t1] # "none" /\ addOut[t2] # "none"

\* C5 as stated: whenever two calls returned the same id and both following
\* add_user calls reached the database, exactly one inserted the row and the
\* other raised IntegrityError.
C5_ExactlyOneInserts ==
    \A t1 \in Threads, t2 \in Threads :
        BothHeld(t1, t2) =>
            \/ addOut[t1] = "ok" /\ addOut[t2] = "IntegrityError"
            \/ addOut[t2] = "ok" /\ addOut[t1] = "IntegrityError"

\* C5 amended: whenever two calls returned the same id, at most one of the two
\* following add_user calls inserts the row, and once one of them has inserted
\* it the other, on a reachable database, raises IntegrityError and inserts
\* nothing.
C5_AtMostOneInserts ==
    /\ [](\A t1 \in Threads, t2 \in Threads :
            BothHeld(t1, t2) => ~(addOut[t1] = "ok" /\ addOut[t2] = "ok"))
    /\ [][\A t1 \in Threads :
             (dbUp /\ held[t1] # NoneId /\ addOut[t1] = "none"
                   /\ \E t2 \in Threads : /\ t1 # t2 /\ held[t2] = held[t1]
                                          /\ addOut[t2] = "ok") =>
                \A f \in Rows :
                    (f.accountid = held[t1] /\ AddUser(t1, f)) =>
                        addOut'[t1] = "IntegrityError" /\ users' = users]_vars

C5_Witness ==
    \E t1 \in Threads, t2 \in Threads :
        /\ BothHeld(t1, t2)
        /\ addOut[t1] = "ok" /\ addOut[t2] = "IntegrityError"
        /\ held[t1] \in Ids(users)

\* C6: get_user with a username no row has, on a reachable database, returns
\* None, raises nothing, and leaves the table unchanged.
C6_AbsentIsNone ==
    [][(dbUp /\ last'.op = "get_user") =>
          \A u \in Usernames \ Names(users) :
              (\E t \in Threads : GetUser(t, u)) =>
                  /\ last'.status = "ok" /\ last'.rec = NoRow
                  /\ users' = users]_vars

C6_Witness ==
    /\ last.op = "get_user" /\ last.status = "ok" /\ last.rec = NoRow
    /\ last.name \notin Names(users)
    /\ users # {}

\* C7: every value generate_accountid returns is a string of exactly ten
\* decimal digits denoting a number in [1000000000, 9999999999], never None.
C7_TenDigitId ==
    /\ \A t \in Threads : pc[t] = "gen_ret" => TenDigits(accountid[t])
    /\ \A t \in Threads : held[t] # NoneId => TenDigits(held[t])
    /\ (last.op = "generate_accountid" /\ last.status = "ok") =>
          (last.id # NoneId /\ TenDigits(last.id))

C7_Witness ==
    /\ last.op = "generate_accountid" /\ last.status = "ok"
    /\ last.id = <<9, 9, 9, 9, 9, 9, 9, 9, 9, 9>>
    /\ users # {}

\* C8: a pass of the loop goes round again only when its candidate has a row;
\* when the existence check fails the call raises at once, returning no id,
\* and the thread is out of the loop.
C8_RetryOnlyOnHit ==
    [][\A t \in Threads :
         (pc[t] = "gen_loop" /\ GenIter(t)) =>
            /\ ~dbUp => /\ pc'[t] = "idle"
                        /\ last' = Event("generate_accountid", 0, "OperationalError",
                                          "execute", NoRow, NoneId)
                        /\ held'[t] = NoneId
            /\ pc'[t] = "gen_loop" =>
                  dbUp /\ last'.op = "retry" /\ last'.id \in Ids(users)]_vars

C8_Witness ==
    /\ last.op = "generate_accountid" /\ last.status = "OperationalError"
    /\ last.at = "execute"
    /\ \E t \in Threads : pc[t] = "idle" /\ held[t] = NoneId

\* C9 as stated: constructing the store while the backing engine is
\* unreachable fails, so no store is ready after it.
C9_InitFailsWhenUnreachable ==
    [][(~dbUp /\ store = "none") =>
          \A uri \in {"valid", "invalid"} :
              Initialize(uri) => (store' = "none" /\ last'.status # "ok")]_vars

\* C9 amended: constructing the store with a well-formed URI succeeds whether
\* or not the backing engine is reachable; an unreachable engine shows only
\* when a call connects: each add_user, generate_accountid and get_user call
\* made while it is unreachable raises OperationalError and changes no row.
C9_InitIsLazy ==
    [][/\ (store = "none" /\ Initialize("valid")) =>
             (store' = "ready" /\ last'.status = "ok")
       /\ (~dbUp /\ store = "ready") =>
             \A t \in Threads :
                 (pc[t] = "idle" /\ (\/ \E f \in Rows : AddUser(t, f)
                                     \/ \E u \in Usernames : GetUser(t, u)
                                     \/ GenCall(t))) =>
                    /\ last'.status = "OperationalError"
                    /\ users' = users /\ pc'[t] = "idle"]_vars

C9_Witness ==
    /\ store = "ready" /\ ~dbUp
    /\ last.op = "init" /\ last.status = "ok" /\ last.name = 0

\* C10: with existence checks that do not fail and a fair random source, a
\* call in the loop returns unless every id of the range has a row; while
\* every id has a row, a thread in the loop stays in it: it neither returns
\* nor raises.
C10_UnboundedRetry ==
    /\ \A t \in Threads :
          (pc[t] = "gen_loop") ~> (held[t] # NoneId \/ Full)
    /\ [][\A t \in Threads :
             (pc[t] = "gen_loop" /\ Full) =>
                (pc'[t] = "gen_loop" /\ held'[t] = NoneId)]_vars

C10_Witness ==
    /\ Full
    /\ last.op = "retry" /\ \E t \in Threads : pc[t] = "gen_loop"
====
